---- MODULE Spec2Model ----
(***************************************************************************)
(* Model of src/generator.py: merge_ui_jsons (the component merger) and    *)
(* split_srs_json (the section splitter).                                  *)
(*                                                                         *)
(* JSON objects are functions from key strings to values; a key that is    *)
(* missing from the object is missing from the function's DOMAIN, so that  *)
(* `"k" in d` is  "k" \in DOMAIN d  and d.get("k", x) is Get(d, "k", x).   *)
(* JSON lists are sequences.  A Python str that the code inspects          *)
(* character by character (text, error messages, section ids and names,    *)
(* file paths) is a sequence of one-character strings; selectors and       *)
(* pageUrls, which the code only tests for emptiness and equality, are     *)
(* TLA+ strings.                                                           *)
(***************************************************************************)
EXTENDS Integers, Sequences, FiniteSets, TLC

VARIABLES
    ui_json_list,      \* merge_ui_jsons: the argument (never written)
    merged_page_data,  \* merge_ui_jsons: the local merged_page_data
    component_map,     \* merge_ui_jsons: the local dict, in insertion order
    page,              \* index of the outer loop (for page_data in ...)
    comp,              \* index of the inner loop (for component in ...)
    pc,                \* position in the function that runs
    json_path,         \* split_srs_json: the argument
    data,              \* split_srs_json: the loaded list of sections
    fs,                \* the file system: directories and files by path
    section            \* index of the loop (for section in data)

mergeVars == <<ui_json_list, merged_page_data, component_map, page, comp>>
splitVars == <<json_path, data, fs, section>>
vars == <<mergeVars, pc, splitVars>>

----------------------------------------------------------------------------
(* Python helpers *)

Range(s) == {s[k] : k \in 1..Len(s)}

\* d.get(k, default)
Get(d, k, default) == IF k \in DOMAIN d THEN d[k] ELSE default

\* d[k] = v on a dict (adds the key when it is missing)
Put(d, k, v) == (k :> v) @@ d

Whitespace == {" ", "\t", "\n"}

RECURSIVE lstrip(_)
lstrip(s) ==
    IF s # <<>> /\ Head(s) \in Whitespace THEN lstrip(Tail(s)) ELSE s

RECURSIVE rstrip(_)
rstrip(s) ==
    IF s # <<>> /\ s[Len(s)] \in Whitespace
    THEN rstrip(SubSeq(s, 1, Len(s) - 1))
    ELSE s

\* str.strip()
strip(s) == rstrip(lstrip(s))

\* frozenset(d.items())
frozenset_items(d) == {<<k, d[k]>> : k \in DOMAIN d}

\* dict(s) for s a frozenset of (key, value) pairs
dict_of(s) ==
    [k \in {p[1] : p \in s} |-> (CHOOSE p \in s : p[1] = k)[2]]

\* the lists a Python list comprehension over a set can produce: the
\* iteration order of a set is not specified
ListsOf(S) ==
    {l \in [1..Cardinality(S) -> S] : Range(l) = S}

----------------------------------------------------------------------------
(* merge_ui_jsons: the pieces of the loop body *)

\* the dict component_map is a sequence of [key, value] entries in insertion
\* order (a Python dict iterates in insertion order)
HasKey(map, selector) == \E k \in 1..Len(map) : map[k].key = selector

IndexOf(map, selector) == CHOOSE k \in 1..Len(map) : map[k].key = selector

\* a slip of line 227: `if selector is None`, which lets "" through
NoSelector_MissingOnly(component) == "selector" \notin DOMAIN component

\* `if not selector`: None (key missing) and "" are both falsy
NoSelector(component) == Get(component, "selector", "") = ""

\* json.loads(json.dumps(component)): a deep copy; the components are JSON
\* values already, so the copy has the same keys and values
DeepCopy(component) == component

\* lines 230-235: the entry stored for a selector seen for the first time
FirstInsertion(component) ==
    LET copy == DeepCopy(component)
    IN  IF "error_messages" \notin DOMAIN copy
        THEN Put(copy, "error_messages", <<>>)
        ELSE copy

\* a slip of lines 245 and 253: the merged set built from the incoming
\* descriptors alone
MergedDescriptors_OnlyNew(existing_list, new_list) ==
    {frozenset_items(d) : d \in Range(new_list)}

\* lines 241-245 and 249-253: the set of descriptors of the existing entry
\* united with the set of descriptors of the incoming component
MergedDescriptors(existing_list, new_list) ==
    {frozenset_items(d) : d \in Range(existing_list)}
        \cup {frozenset_items(d) : d \in Range(new_list)}

\* lines 246-247 and 254: the lists that [dict(s) for s in merged] can be
DescriptorLists(merged) ==
    {[k \in 1..Len(l) |-> dict_of(l[k])] : l \in ListsOf(merged)}

\* lines 257 and 263: the test both `if` statements make
IsErrorWithText(component) ==
    /\ Get(component, "classes", <<>>) # <<>>
    /\ "error" \in Range(component["classes"])
    /\ Get(component, "text", <<>>) # <<>>

\* lines 257-260: error_messages of the existing entry after the merge
MergedErrorMessages(existing_component, component) ==
    IF IsErrorWithText(component)
    THEN LET error_text == strip(component["text"])
         IN  IF /\ error_text # <<>>
                /\ error_text \notin Range(existing_component["error_messages"])
             THEN Append(existing_component["error_messages"], error_text)
             ELSE existing_component["error_messages"]
    ELSE existing_component["error_messages"]

\* lines 263-264: the entry after the conditional flag is handled
MarkConditional(existing_component, component) ==
    IF IsErrorWithText(component)
    THEN Put(existing_component, "conditional", TRUE)
    ELSE existing_component

\* lines 238-264: the else branch, given the two lists the comprehensions
\* produced
MergeInto(existing_component, component, actions, fields) ==
    LET e1 == Put(existing_component, "actions", actions)
        e2 == Put(e1, "fields", fields)
        e3 == Put(e2, "error_messages", MergedErrorMessages(e2, component))
    IN  MarkConditional(e3, component)

\* a slip of line 222: the test `not merged_page_data["pageUrl"]` left out,
\* so that the last pageUrl wins
PageUrlAfter_LastWins(merged, page_data) ==
    IF "pageUrl" \in DOMAIN page_data
    THEN [merged EXCEPT !.pageUrl = page_data["pageUrl"]]
    ELSE merged

\* lines 222-223
PageUrlAfter(merged, page_data) ==
    IF "pageUrl" \in DOMAIN page_data /\ merged.pageUrl = ""
    THEN [merged EXCEPT !.pageUrl = page_data["pageUrl"]]
    ELSE merged

\* line 225: page_data.get("components", [])
ComponentsOf(page_data) == Get(page_data, "components", <<>>)

\* a slip of line 267: the values listed last-inserted first
MapValues_Reversed(map) == [k \in 1..Len(map) |-> map[Len(map) + 1 - k].value]

\* line 267: list(component_map.values())
MapValues(map) == [k \in 1..Len(map) |-> map[k].value]

\* lines 226-264: the values component_map can have after one pass of the
\* inner loop body over `component` (more than one only where a list is built
\* from a set)
AfterComponent(map, component) ==
    IF NoSelector(component)
    THEN {map}
    ELSE LET selector == component["selector"]
         IN  IF ~HasKey(map, selector)
             THEN {Append(map, [key |-> selector,
                                value |-> FirstInsertion(component)])}
             ELSE LET k == IndexOf(map, selector)
                      existing_component == map[k].value
                      merged_actions ==
                          MergedDescriptors(
                              Get(existing_component, "actions", <<>>),
                              Get(component, "actions", <<>>))
                      merged_fields ==
                          MergedDescriptors(
                              Get(existing_component, "fields", <<>>),
                              Get(component, "fields", <<>>))
                  IN  {[map EXCEPT ![k].value =
                            MergeInto(existing_component, component,
                                      actions, fields)] :
                          actions \in DescriptorLists(merged_actions),
                          fields \in DescriptorLists(merged_fields)}

----------------------------------------------------------------------------
(* merge_ui_jsons as a state machine: one action per pass of a loop body *)

\* where the loops stand after the inner loop body ran on component `comp`
\* of page `page`
LoopAdvance ==
    IF comp < Len(ComponentsOf(ui_json_list[page]))
    THEN /\ comp' = comp + 1
         /\ UNCHANGED <<page, pc>>
    ELSE /\ page' = page + 1
         /\ comp' = 1
         /\ pc' = "page"

Current == ComponentsOf(ui_json_list[page])[comp]

\* lines 221-225: the head of the outer loop body
BeginPage ==
    /\ pc = "page"
    /\ page <= Len(ui_json_list)
    /\ merged_page_data' = PageUrlAfter(merged_page_data, ui_json_list[page])
    /\ IF ComponentsOf(ui_json_list[page]) # <<>>
       THEN pc' = "component" /\ page' = page
       ELSE pc' = "page" /\ page' = page + 1
    /\ comp' = 1
    /\ UNCHANGED <<ui_json_list, component_map, splitVars>>

\* lines 226-228: a component without a selector
SkipComponent ==
    /\ pc = "component"
    /\ NoSelector(Current)
    /\ component_map' \in AfterComponent(component_map, Current)
    /\ LoopAdvance
    /\ UNCHANGED <<ui_json_list, merged_page_data, splitVars>>

\* lines 230-235: a selector that is not in component_map
InsertComponent ==
    /\ pc = "component"
    /\ ~NoSelector(Current)
    /\ ~HasKey(component_map, Current["selector"])
    /\ component_map' \in AfterComponent(component_map, Current)
    /\ LoopAdvance
    /\ UNCHANGED <<ui_json_list, merged_page_data, splitVars>>

\* lines 236-264: a selector that is in component_map
MergeComponent ==
    /\ pc = "component"
    /\ ~NoSelector(Current)
    /\ HasKey(component_map, Current["selector"])
    /\ component_map' \in AfterComponent(component_map, Current)
    /\ LoopAdvance
    /\ UNCHANGED <<ui_json_list, merged_page_data, splitVars>>

\* lines 267-268
Return ==
    /\ pc = "page"
    /\ page > Len(ui_json_list)
    /\ merged_page_data' =
           [merged_page_data EXCEPT !.components = MapValues(component_map)]
    /\ pc' = "done"
    /\ UNCHANGED <<ui_json_list, component_map, page, comp, splitVars>>

Next ==
    \/ BeginPage
    \/ SkipComponent
    \/ InsertComponent
    \/ MergeComponent
    \/ Return

\* lines 218-219: the locals before the loop, for the argument `list`
InitMerge(list) ==
    /\ ui_json_list = list
    /\ merged_page_data = [pageUrl |-> "", components |-> <<>>]
    /\ component_map = <<>>
    /\ page = 1
    /\ comp = 1
    /\ pc = "page"
    /\ json_path = <<>>
    /\ data = <<>>
    /\ fs = [dirs |-> {<<>>}, files |-> {}]
    /\ section = 1

----------------------------------------------------------------------------
(* merge_ui_jsons as a function: the same loop bodies folded over the input *)

RECURSIVE MapAfterComponents(_, _)
MapAfterComponents(map, components) ==
    IF components = <<>>
    THEN map
    ELSE MapAfterComponents(
             CHOOSE m \in AfterComponent(map, Head(components)) : TRUE,
             Tail(components))

RECURSIVE MergeFrom(_, _, _)
MergeFrom(merged, map, list) ==
    IF list = <<>>
    THEN [merged EXCEPT !.components = MapValues(map)]
    ELSE MergeFrom(PageUrlAfter(merged, Head(list)),
                   MapAfterComponents(map, ComponentsOf(Head(list))),
                   Tail(list))

merge_ui_jsons(list) ==
    MergeFrom([pageUrl |-> "", components |-> <<>>], <<>>, list)

----------------------------------------------------------------------------
(* The inputs of merge_ui_jsons that the specifications draw from *)

MaxDocs == 2    \* documents in ui_json_list
MaxComps == 3   \* components in all documents of ui_json_list together

\* an optional key: o is {} (the key is missing) or {v} (the key holds v)
Opt(k, o) == IF o = {} THEN <<>> ELSE (k :> (CHOOSE v \in o : TRUE))

Component(selector, classes, text, actions, fields, error_messages, conditional) ==
    Opt("selector", selector) @@ Opt("classes", classes) @@ Opt("text", text)
        @@ Opt("actions", actions) @@ Opt("fields", fields)
        @@ Opt("error_messages", error_messages)
        @@ Opt("conditional", conditional)

Components(S, C, T, A, F, E, K) ==
    {Component(s, c, t, a, f, e, k) :
        s \in S, c \in C, t \in T, a \in A, f \in F, e \in E, k \in K}

\* the sequences of exactly n elements of U
SeqsOfLen(U, n) == [1..n -> U]

\* the documents with exactly n components of U and a pageUrl option of Urls
PagesOfLen(Urls, U, n) ==
    {Opt("pageUrl", u) @@ ("components" :> c) :
        u \in Urls, c \in SeqsOfLen(U, n)}

\* the lists of exactly n documents holding at most `budget` components
RECURSIVE ListsOfPages(_, _, _, _)
ListsOfPages(Urls, U, n, budget) ==
    IF n = 0
    THEN {<<>>}
    ELSE UNION {
             {<<p>> \o rest :
                 p \in PagesOfLen(Urls, U, k),
                 rest \in ListsOfPages(Urls, U, n - 1, budget - k)} :
             k \in 0..budget}

Inputs(Urls, U) ==
    UNION {ListsOfPages(Urls, U, n, MaxComps) : n \in 1..MaxDocs}

\* descriptors, texts and messages the inputs are built from
Fill == [type |-> "fill"]
Click == [type |-> "click", target |-> "btn"]
SPName == [name |-> "SP Name"]
\* agrees with SPName on one key and has another: a different descriptor
SPNameTel == [name |-> "SP Name", type |-> "tel"]

NameRequired == <<"N", "a", "m", "e", " ", "r", "e", "q">>
PaddedNameRequired == <<" ", " ">> \o NameRequired \o <<" ", " ">>
Invalid == <<"I", "n", "v", "a", "l", "i", "d">>

\* a component without a selector that carries everything a merge reads
Unkeyed ==
    Component({}, {<<"error">>}, {Invalid}, {<<Click>>}, {<<SPNameTel>>}, {}, {})

\* error-bearing and plain components under one selector, with and without
\* error_messages of their own
ErrorUniverse ==
    Components({{"#name"}}, {{}, {<<"error">>}},
               {{}, {PaddedNameRequired}, {Invalid}},
               {{}}, {{}},
               {{}, {<<NameRequired, NameRequired>>}}, {{}})
        \cup {Unkeyed}

Init == \E list \in Inputs({{"/sp"}}, ErrorUniverse) : InitMerge(list)

Spec == Init /\ [][Next]_vars

\* components under one selector whose actions and fields overlap, repeat or
\* are missing
DescriptorUniverse ==
    Components({{"#name"}}, {{}}, {{}},
               {{}, {<<Fill, Fill>>}}, {{}, {<<SPName>>}}, {{}}, {{}})
        \cup Components({{"#name"}}, {{}}, {{}},
                        {{<<Click, Fill>>}}, {{<<SPNameTel, SPName, SPNameTel>>}},
                        {{}}, {{}})
        \cup {Unkeyed}

InitDescriptors ==
    \E list \in Inputs({{"/sp"}}, DescriptorUniverse) : InitMerge(list)

SpecDescriptors == InitDescriptors /\ [][Next]_vars

\* components under three selectors, under the empty selector and under none
SelectorUniverse ==
    Components({{"#a"}}, {{}}, {{}}, {{<<Fill>>}}, {{}}, {{}}, {{}})
        \cup Components({{"#a"}, {""}}, {{<<"error">>}}, {{Invalid}},
                        {{<<Click>>}}, {{<<SPName>>}}, {{}}, {{}})
        \cup Components({{"#b"}, {"#c"}}, {{}}, {{}}, {{}}, {{}}, {{}}, {{}})
        \cup {Unkeyed}

InitSelectors ==
    \E list \in Inputs({{"/sp"}}, SelectorUniverse) : InitMerge(list)

SpecSelectors == InitSelectors /\ [][Next]_vars

\* documents without a pageUrl, with an empty one and with two different ones
PageUrlUniverse ==
    Components({{"#a"}}, {{}}, {{}}, {{<<Fill>>}}, {{}}, {{}}, {{}})
        \cup {Unkeyed}

InitPageUrl ==
    \E list \in Inputs({{}, {""}, {"/sp"}, {"/other"}}, PageUrlUniverse) :
        InitMerge(list)

SpecPageUrl == InitPageUrl /\ [][Next]_vars

\* a text of whitespace only
Blank == <<" ", " ">>

\* plain and error components under one selector whose text is missing,
\* blank or padded
BlankTextUniverse ==
    Components({{"#name"}}, {{}, {<<"error">>}},
               {{}, {Blank}, {PaddedNameRequired}},
               {{}}, {{}}, {{}}, {{}})
        \cup {Unkeyed}

InitBlankText ==
    \E list \in Inputs({{"/sp"}}, BlankTextUniverse) : InitMerge(list)

SpecBlankText == InitBlankText /\ [][Next]_vars

----------------------------------------------------------------------------
(* split_srs_json *)

\* the largest index of character c in s, 0 when s has none: s.rfind(c) + 1
LastIndexOf(s, c) ==
    LET at == {k \in 1..Len(s) : s[k] = c}
    IN  IF at = {} THEN 0 ELSE CHOOSE k \in at : \A m \in at : m <= k

\* os.path.splitext(p)[0]: the extension starts at the last dot of the last
\* path component, unless that dot leads the component
splitext_root(p) ==
    LET dot == LastIndexOf(p, ".")
        sep == LastIndexOf(p, "/")
    IN  IF dot > sep + 1 THEN SubSeq(p, 1, dot - 1) ELSE p

\* os.path.join(a, b) of posixpath
path_join(a, b) ==
    IF b # <<>> /\ Head(b) = "/" THEN b
    ELSE IF a = <<>> \/ a[Len(a)] = "/" THEN a \o b
    ELSE a \o <<"/">> \o b

\* os.path.dirname(p) of posixpath
dirname(p) ==
    LET head == SubSeq(p, 1, LastIndexOf(p, "/"))
    IN  IF head # <<>> /\ Range(head) # {"/"}
        THEN SubSeq(head, 1, CHOOSE n \in 1..Len(head) :
                                 /\ head[n] # "/"
                                 /\ \A m \in (n + 1)..Len(head) : head[m] = "/")
        ELSE head

\* str.replace(" ", "_")
RECURSIVE replace_space(_)
replace_space(s) ==
    IF s = <<>> THEN <<>>
    ELSE <<IF Head(s) = " " THEN "_" ELSE Head(s)>> \o replace_space(Tail(s))

\* line 410: the placeholder for a missing Section_ID
MissingSectionId == <<"N", "/", "A">>

\* line 412: the placeholder for a missing Section_Name
MissingSectionName == <<"U", "n", "n", "a", "m", "e", "d">>

\* lines 410-414: f"{section_id}-{section_name}.json"
SectionKey(sec) ==
    Get(sec, "Section_ID", MissingSectionId) \o <<"-">>
        \o replace_space(Get(sec, "Section_Name", MissingSectionName))

\* line 406
OutputDir(path) == splitext_root(path) \o <<"_", "s", "e", "c", "t", "i", "o", "n", "s">>

\* lines 413-414
SectionFilename(path, sec) ==
    path_join(OutputDir(path), SectionKey(sec) \o <<".", "j", "s", "o", "n">>)

\* line 407: os.makedirs(d, exist_ok=True) creates d and its missing parents
RECURSIVE Ancestors(_)
Ancestors(d) == IF d = <<>> THEN {<<>>} ELSE {d} \cup Ancestors(dirname(d))

\* line 415: open(filename, 'w') succeeds when the parent directory exists
\* and the name is not that of a directory
CanOpenForWrite(files, filename) ==
    /\ dirname(filename) \in files.dirs
    /\ filename \notin files.dirs

\* lines 415-416: the file system after json.dump wrote the section; a file
\* holds the JSON value that was dumped into it
WriteJson(files, filename, value) ==
    [files EXCEPT !.files =
        {f \in @ : f.path # filename}
            \cup {[path |-> filename, content |-> value]}]

\* lines 400-407: the data is loaded and the output directory made
LoadAndMakeDir ==
    /\ pc = "load"
    /\ fs' = [fs EXCEPT !.dirs = @ \cup Ancestors(OutputDir(json_path))]
    /\ section' = 1
    /\ pc' = "section"
    /\ UNCHANGED <<json_path, data, mergeVars>>

\* lines 409-417: one pass of the loop body
WriteSection ==
    /\ pc = "section"
    /\ section <= Len(data)
    /\ CanOpenForWrite(fs, SectionFilename(json_path, data[section]))
    /\ fs' = WriteJson(fs, SectionFilename(json_path, data[section]),
                       data[section])
    /\ section' = section + 1
    /\ UNCHANGED <<json_path, data, pc, mergeVars>>

\* line 415 raising, caught at lines 421-426: the function returns None
OpenRaises ==
    /\ pc = "section"
    /\ section <= Len(data)
    /\ ~CanOpenForWrite(fs, SectionFilename(json_path, data[section]))
    /\ pc' = "return None"
    /\ UNCHANGED <<splitVars, mergeVars>>

\* lines 419-420
ReturnOutputDir ==
    /\ pc = "section"
    /\ section > Len(data)
    /\ pc' = "return output_dir"
    /\ UNCHANGED <<splitVars, mergeVars>>

SplitNext ==
    \/ LoadAndMakeDir
    \/ WriteSection
    \/ OpenRaises
    \/ ReturnOutputDir

MaxSections == 2   \* sections in the input of split_srs_json

SectionIds == {{}, {<<"1">>}, {<<"2">>}}
SectionNames ==
    {{}, {<<"I", "n", "t", "r", "o">>}, {<<"C", "o", "r", "e", " ", "F">>},
     {<<"C", "o", "r", "e", "_", "F">>}}
SectionBodies == {<<"FR-1">>, <<>>}

Sections ==
    {Opt("Section_ID", i) @@ Opt("Section_Name", n) @@ ("Sub_Sections" :> b) :
        i \in SectionIds, n \in SectionNames, b \in SectionBodies}

JsonPaths == {<<"s", ".", "j", "s", "o", "n">>,
              <<"i", "n", "/", "s", ".", "j", "s", "o", "n">>}

InitSplit ==
    /\ json_path \in JsonPaths
    /\ data \in UNION {[1..n -> Sections] : n \in 0..MaxSections}
    /\ fs = [dirs |-> Ancestors(dirname(json_path)), files |-> {}]
    /\ section = 1
    /\ pc = "load"
    /\ ui_json_list = <<>>
    /\ merged_page_data = [pageUrl |-> "", components |-> <<>>]
    /\ component_map = <<>>
    /\ page = 1
    /\ comp = 1

SpecSplit == InitSplit /\ [][SplitNext]_vars

----------------------------------------------------------------------------
(* What the claims speak of *)

NoDuplicates(s) == \A a, b \in 1..Len(s) : s[a] = s[b] => a = b

Count(x, s) == Cardinality({k \in 1..Len(s) : s[k] = x})

RECURSIVE Flatten(_)
Flatten(list) ==
    IF list = <<>> THEN <<>>
    ELSE ComponentsOf(Head(list)) \o Flatten(Tail(list))

\* the input components in the order the loops visit them
AllComponents == Flatten(ui_json_list)

\* the input components the loops have been over
Processed ==
    Flatten(SubSeq(ui_json_list, 1, page - 1))
        \o (IF pc = "component"
            THEN SubSeq(ComponentsOf(ui_json_list[page]), 1, comp - 1)
            ELSE <<>>)

HasSelector(c) == "selector" \in DOMAIN c /\ c["selector"] # ""

\* classes contain "error" and the text is not empty
ErrorBearing(c) ==
    /\ "classes" \in DOMAIN c
    /\ "error" \in Range(c["classes"])
    /\ "text" \in DOMAIN c
    /\ c["text"] # <<>>

\* the input components, among those of sequence cs, under selector sel
Contributing(cs, sel) ==
    SelectSeq(cs, LAMBDA c : HasSelector(c) /\ c["selector"] = sel)

Selectors(cs) == {cs[k]["selector"] : k \in {m \in 1..Len(cs) : HasSelector(cs[m])}}

Done == pc = "done"

Result == merged_page_data.components

\* the returned component under selector sel
ResultFor(sel) ==
    Result[CHOOSE k \in 1..Len(Result) : Get(Result[k], "selector", "") = sel]

HasResultFor(sel) ==
    \E k \in 1..Len(Result) : Get(Result[k], "selector", "") = sel

\* two components agree: the same keys, actions and fields the same as sets,
\* every other key the same value
SameComponent(a, b) ==
    /\ DOMAIN a = DOMAIN b
    /\ \A key \in DOMAIN a :
           IF key \in {"actions", "fields"}
           THEN Range(a[key]) = Range(b[key])
           ELSE a[key] = b[key]

SameDocument(a, b) ==
    /\ a.pageUrl = b.pageUrl
    /\ Len(a.components) = Len(b.components)
    /\ \A k \in 1..Len(a.components) :
           SameComponent(a.components[k], b.components[k])

\* C1: merge_ui_jsons([D, D]) equals merge_ui_jsons([D]) for every document
\* D whose components all have a selector, actions and fields compared as
\* sets and every other key exactly.
SelfMergeInput ==
    /\ Len(ui_json_list) = 2
    /\ ui_json_list[1] = ui_json_list[2]
    /\ \A k \in 1..Len(AllComponents) : HasSelector(AllComponents[k])

C1_SelfMergeIdempotent ==
    (Done /\ SelfMergeInput) =>
        SameDocument(merged_page_data, merge_ui_jsons(<<ui_json_list[1]>>))

\* C2: from the step that processes an input component with classes
\* containing "error" and non-empty text, the accumulated component of its
\* selector has conditional = true, at every later step and in the returned
\* document.
C2_ConditionalOnceErrorSeen ==
    /\ \A k \in 1..Len(component_map) :
           (\E m \in 1..Len(Processed) :
                /\ HasSelector(Processed[m])
                /\ Processed[m]["selector"] = component_map[k].key
                /\ ErrorBearing(Processed[m]))
               => Get(component_map[k].value, "conditional", FALSE) = TRUE
    /\ Done =>
           \A sel \in Selectors(AllComponents) :
               (\E m \in 1..Len(Contributing(AllComponents, sel)) :
                    ErrorBearing(Contributing(AllComponents, sel)[m]))
                   => /\ HasResultFor(sel)
                      /\ Get(ResultFor(sel), "conditional", FALSE) = TRUE

\* the descriptors under key `key` of all components of sequence cs
DescriptorsOf(cs, key) ==
    UNION {Range(Get(cs[k], key, <<>>)) : k \in 1..Len(cs)}

\* C3: for input components that share a selector, the merged component's
\* actions are the set-union of the inputs' action descriptors and its
\* fields the set-union of their field descriptors, descriptors being the
\* same only when every key/value pair matches, and neither merged list
\* holds a descriptor twice.
C3_DescriptorsAreUnion ==
    Done =>
        \A sel \in Selectors(AllComponents) :
            LET inputs == Contributing(AllComponents, sel)
            IN  Len(inputs) >= 2 =>
                    /\ HasResultFor(sel)
                    /\ \A key \in {"actions", "fields"} :
                           /\ key \in DOMAIN ResultFor(sel)
                           /\ Range(ResultFor(sel)[key])
                                  = DescriptorsOf(inputs, key)
                           /\ NoDuplicates(ResultFor(sel)[key])

\* two components under one selector, with different actions, one of them
\* repeating a descriptor, and with fields, were merged
C3_Witness ==
    /\ Done
    /\ \E sel \in Selectors(AllComponents) :
           LET inputs == Contributing(AllComponents, sel)
           IN  /\ Len(inputs) = 2
               /\ Get(inputs[1], "actions", <<>>) = <<Fill, Fill>>
               /\ Get(inputs[2], "actions", <<>>) = <<Click, Fill>>
               /\ Get(inputs[1], "fields", <<>>) = <<SPName>>
               /\ Get(inputs[2], "fields", <<>>) = <<SPNameTel, SPName, SPNameTel>>
               /\ Range(ResultFor(sel)["actions"]) = {Fill, Click}
               /\ Len(ResultFor(sel)["fields"]) = 2

\* the text has whitespace around a non-empty core
Padded(t) == strip(t) # t /\ strip(t) # <<>>

\* documents a and b both hold an error component under sel with text t
SuppliedByTwo(sel, t) ==
    \E a, b \in 1..Len(ui_json_list) :
        /\ a # b
        /\ \A d \in {a, b} :
               \E k \in 1..Len(ComponentsOf(ui_json_list[d])) :
                   LET c == ComponentsOf(ui_json_list[d])[k]
                   IN  /\ HasSelector(c) /\ c["selector"] = sel
                       /\ ErrorBearing(c) /\ c["text"] = t

\* C4: when two or more documents supply, under one selector, a component
\* with class "error" and a text with surrounding whitespace, the merged
\* component's error_messages holds the trimmed text exactly once and its
\* conditional is true.
C4_TrimmedErrorOnce ==
    Done =>
        \A sel \in Selectors(AllComponents) :
            \A k \in 1..Len(Contributing(AllComponents, sel)) :
                LET t == Get(Contributing(AllComponents, sel)[k], "text", <<>>)
                IN  (Padded(t) /\ SuppliedByTwo(sel, t)) =>
                        /\ HasResultFor(sel)
                        /\ Count(strip(t), ResultFor(sel)["error_messages"]) = 1
                        /\ Get(ResultFor(sel), "conditional", FALSE) = TRUE

\* C5: in the returned document no component's actions list holds a
\* descriptor twice and no component's fields list does, also for a
\* component that was only copied.
C5_NoRepeatedDescriptors ==
    Done =>
        \A k \in 1..Len(Result) :
            /\ NoDuplicates(Get(Result[k], "actions", <<>>))
            /\ NoDuplicates(Get(Result[k], "fields", <<>>))

\* the error strings the input shows under a selector, in the order the
\* loops meet them: a component's own error_messages, then its trimmed text
\* when it is error-bearing
RECURSIVE ErrorsSeen(_)
ErrorsSeen(cs) ==
    IF cs = <<>> THEN <<>>
    ELSE Get(Head(cs), "error_messages", <<>>)
            \o (IF ErrorBearing(Head(cs)) /\ strip(Head(cs)["text"]) # <<>>
                THEN <<strip(Head(cs)["text"])>>
                ELSE <<>>)
            \o ErrorsSeen(Tail(cs))

FirstIndex(s, x) == CHOOSE k \in 1..Len(s) : s[k] = x /\ \A m \in 1..(k - 1) : s[m] # x

\* C6: in the returned document each component's error_messages holds no
\* string twice and lists its strings in the order in which the inputs first
\* showed them, also when the first-inserted component carries its own
\* error_messages.
C6_ErrorMessagesOrderedUnique ==
    Done =>
        \A k \in 1..Len(Result) :
            LET msgs == Result[k]["error_messages"]
                seen == ErrorsSeen(Contributing(AllComponents,
                                                Result[k]["selector"]))
            IN  /\ NoDuplicates(msgs)
                /\ Range(msgs) \subseteq Range(seen)
                /\ \A a, b \in 1..Len(msgs) :
                       (a < b /\ msgs[a] # msgs[b]) =>
                           FirstIndex(seen, msgs[a]) < FirstIndex(seen, msgs[b])

\* the selectors of the components that have one, in the order the loops
\* visit them
RECURSIVE SelectorsInOrder(_)
SelectorsInOrder(cs) ==
    IF cs = <<>> THEN <<>>
    ELSE (IF HasSelector(Head(cs)) THEN <<Head(cs)["selector"]>> ELSE <<>>)
            \o SelectorsInOrder(Tail(cs))

ResultSelectors == [k \in 1..Len(Result) |-> Get(Result[k], "selector", "")]

\* C7: the returned components hold exactly one component per distinct
\* selector of the inputs, ordered by the position of each selector's first
\* occurrence in the scan of the documents and of their components.
C7_OnePerSelectorInFirstSeenOrder ==
    Done =>
        LET seen == SelectorsInOrder(AllComponents)
        IN  /\ NoDuplicates(ResultSelectors)
            /\ Range(ResultSelectors) = Range(seen)
            /\ \A a, b \in 1..Len(Result) :
                   a < b => FirstIndex(seen, ResultSelectors[a])
                                < FirstIndex(seen, ResultSelectors[b])

\* three components of two documents under two selectors, the first selector
\* occurring again after the second: two components in first-seen order
C7_Witness ==
    /\ Done
    /\ Len(ui_json_list) = 2
    /\ SelectorsInOrder(AllComponents) = <<"#b", "#a", "#b">>
    /\ ResultSelectors = <<"#b", "#a">>

\* the pageUrl the claim names: that of the first document that has a
\* non-empty one, "" when none has
FirstNonEmptyPageUrl(list) ==
    LET with == {k \in 1..Len(list) :
                    "pageUrl" \in DOMAIN list[k] /\ list[k]["pageUrl"] # ""}
    IN  IF with = {} THEN ""
        ELSE list[CHOOSE k \in with : \A m \in with : k <= m]["pageUrl"]

\* C8: the returned pageUrl is the first non-empty pageUrl of the inputs in
\* order, and the empty string when no input has a non-empty pageUrl.
C8_FirstNonEmptyPageUrl ==
    Done => merged_page_data.pageUrl = FirstNonEmptyPageUrl(ui_json_list)

\* two documents with different non-empty pageUrls: the first was kept
C8_Witness ==
    /\ Done
    /\ Len(ui_json_list) = 2
    /\ Get(ui_json_list[1], "pageUrl", "") = "/sp"
    /\ Get(ui_json_list[2], "pageUrl", "") = "/other"
    /\ merged_page_data.pageUrl = "/sp"

\* the documents without their components that have no selector
WithoutUnkeyed(list) ==
    [k \in 1..Len(list) |->
        IF "components" \in DOMAIN list[k]
        THEN [list[k] EXCEPT !["components"] = SelectSeq(@, HasSelector)]
        ELSE list[k]]

\* sequences a and b hold the same elements the same number of times
SameBag(a, b) ==
    /\ Len(a) = Len(b)
    /\ \A x \in Range(a) \cup Range(b) : Count(x, a) = Count(x, b)

\* two documents are the same but for the order in which a list that was
\* built from a set holds its descriptors
EqualDocuments(a, b) ==
    /\ a.pageUrl = b.pageUrl
    /\ Len(a.components) = Len(b.components)
    /\ \A k \in 1..Len(a.components) :
           LET x == a.components[k]
               y == b.components[k]
           IN  /\ DOMAIN x = DOMAIN y
               /\ \A key \in DOMAIN x :
                      IF key \in {"actions", "fields"}
                      THEN SameBag(x[key], y[key])
                      ELSE x[key] = y[key]

\* C9: components with a missing or empty selector never appear in the
\* result, and the result is that of merging the same documents with those
\* components removed.
C9_UnkeyedComponentsChangeNothing ==
    Done =>
        /\ \A k \in 1..Len(Result) : HasSelector(Result[k])
        /\ EqualDocuments(merged_page_data,
                          merge_ui_jsons(WithoutUnkeyed(ui_json_list)))

\* a component without a selector and one with the empty selector, both with
\* an error text and descriptors, stood between two components that merged
C9_Witness ==
    /\ Done
    /\ Len(AllComponents) = 3
    /\ HasSelector(AllComponents[1])
    /\ ~HasSelector(AllComponents[2])
    /\ ErrorBearing(AllComponents[2])
    /\ HasSelector(AllComponents[3])
    /\ AllComponents[1]["selector"] = AllComponents[3]["selector"]
    /\ Len(Result) = 1
    /\ Range(Result[1]["actions"]) = {Fill, Click}

\* no two sections of the input derive the same key
DistinctKeys ==
    \A a, b \in 1..Len(data) :
        a # b => SectionKey(data[a]) # SectionKey(data[b])

\* C10: for sections with pairwise distinct derived keys, sections without a
\* Section_ID included, split_srs_json completes without failing, produces
\* exactly one output file per section, and each file holds its section's
\* content unmodified.
C10_EverySectionWritten ==
    (pc \in {"return output_dir", "return None"} /\ DistinctKeys) =>
        /\ pc = "return output_dir"
        /\ Cardinality(fs.files) = Len(data)
        /\ \A k \in 1..Len(data) :
               \E f \in fs.files : f.content = data[k]

\* the step about to be taken merges the component at hand into an entry
\* that component_map already has
MergesIntoEntry ==
    /\ pc = "component"
    /\ HasSelector(Current)
    /\ \E k \in 1..Len(component_map) :
           component_map[k].key = Current["selector"]

EntryIndex ==
    CHOOSE k \in 1..Len(component_map) :
        component_map[k].key = Current["selector"]

HasErrorClass(c) == "classes" \in DOMAIN c /\ "error" \in Range(c["classes"])

\* the text is there and is not empty once its whitespace is trimmed
NonBlankText(c) == "text" \in DOMAIN c /\ strip(c["text"]) # <<>>

\* the text is there, is not empty and is whitespace only
BlankText(c) ==
    "text" \in DOMAIN c /\ c["text"] # <<>> /\ strip(c["text"]) = <<>>

\* C11: a merge into an already-present entry sets conditional = true only
\* if the incoming classes contain "error" and the incoming text is
\* non-empty after trimming; an incoming component with class "error" and a
\* whitespace-only text leaves error_messages and conditional of the entry
\* unchanged.
C11_ConditionalOnlyForNonBlankError ==
    [][MergesIntoEntry =>
          LET before == component_map[EntryIndex].value
              after == component_map'[EntryIndex].value
          IN  /\ (/\ Get(before, "conditional", FALSE) # TRUE
                  /\ Get(after, "conditional", FALSE) = TRUE)
                     => (HasErrorClass(Current) /\ NonBlankText(Current))
              /\ (HasErrorClass(Current) /\ BlankText(Current))
                     => /\ after["error_messages"] = before["error_messages"]
                        /\ ("conditional" \in DOMAIN after)
                               = ("conditional" \in DOMAIN before)
                        /\ Get(after, "conditional", FALSE)
                               = Get(before, "conditional", FALSE)]_vars

====
